---- MODULE Spec2Model ----
(***************************************************************************)
(* Model of jsonl_to_xlsx.py: the JSONL -> XLSX/CSV converter for          *)
(* WipperSnapper offline logs.  One run of jsonl_to_xlsx() is a state      *)
(* machine over the discovered log files; write_data_to_file() is an       *)
(* operator applied by the flush steps.                                    *)
(***************************************************************************)
EXTENDS Integers, Sequences, FiniteSets, Bags, TLC

(***************************************************************************)
(* Bounds of the model.                                                    *)
(***************************************************************************)
MaxFiles == 2
MaxLines == 2
MaxTicks == 1

(***************************************************************************)
(* JSON / Python values.  Every value is tagged so values of different     *)
(* Python types compare unequal instead of being incomparable.             *)
(***************************************************************************)
Absent == [tag |-> "absent"]
Null == [tag |-> "null"]
List == [tag |-> "list"]
Num(n) == [tag |-> "num", n |-> n]
Str(s) == [tag |-> "str", s |-> s]
Unbound == [tag |-> "unbound"]

\* the "Unknown" default used by every .get() of the line loop
Unknown == Str("Unknown")
\* the default of config_data.get("exportedFromDevice", {}).get("rtc", ...)
UnknownBoard == Str("Unknown Board")

\* dict.get(key, default) on a parsed JSON object
Get(entry, key, default) == IF entry[key] = Absent THEN default ELSE entry[key]

\* str(v) as an f-string renders it
Format(v) ==
    CASE v.tag = "num" -> ToString(v.n)
      [] v.tag = "str" -> v.s
      [] v.tag = "null" -> "None"
      [] OTHER -> "[]"

(***************************************************************************)
(* time.strftime('%Y-%m-%d %H:%M:%S', time.localtime(secs)) for secs >= 0, *)
(* with the local zone taken to be UTC.                                    *)
(***************************************************************************)
Pad2(n) == IF n < 10 THEN "0" \o ToString(n) ELSE ToString(n)

Strftime(secs) ==
    LET days == secs \div 86400
        rem == secs % 86400
        z == days + 719468
        era == z \div 146097
        doe == z - era * 146097
        yoe == (doe - doe \div 1460 + doe \div 36524 - doe \div 146096) \div 365
        doy == doe - (365 * yoe + yoe \div 4 - yoe \div 100)
        mp == (5 * doy + 2) \div 153
        d == doy - (153 * mp + 2) \div 5 + 1
        m == IF mp < 10 THEN mp + 3 ELSE mp - 9
        y == yoe + era * 400 + (IF m <= 2 THEN 1 ELSE 0)
    IN ToString(y) \o "-" \o Pad2(m) \o "-" \o Pad2(d) \o " " \o
       Pad2(rem \div 3600) \o ":" \o Pad2((rem % 3600) \div 60) \o ":" \o Pad2(rem % 60)

\* time.localtime(x): a number is converted, None means "now", anything
\* else raises TypeError
LocaltimeRaises(x) == x.tag \notin {"num", "null"}
DateTimeOf(x, now) == Str(Strftime(IF x.tag = "null" THEN now ELSE x.n))

(***************************************************************************)
(* The lookup tables.  A configuration is the list under "components".     *)
(***************************************************************************)
\* a lookup in which the first component with an address wins
RECURSIVE I2cMappingFirstWins(_)
I2cMappingFirstWins(comps) ==
    IF comps = <<>> THEN <<>>
    ELSE (Get(Head(comps), "i2cDeviceAddress", Null) :> Get(Head(comps), "name", Unknown))
         @@ I2cMappingFirstWins(Tail(comps))

\* the dict comprehension: a later component with the same address wins
RECURSIVE I2cMapping(_)
I2cMapping(components) ==
    IF components = <<>> THEN <<>>
    ELSE LET n == Len(components)
             comp == components[n]
             rest == I2cMapping(SubSeq(components, 1, n - 1))
         IN (Get(comp, "i2cDeviceAddress", Null) :> Get(comp, "name", Unknown)) @@ rest

\* i2c_mapping.get(i2c_address, "Unknown"); an unhashable key raises
MappingGetRaises(addr) == addr.tag = "list"
MappingGet(mapping, addr) == IF addr \in DOMAIN mapping THEN mapping[addr] ELSE Unknown

(***************************************************************************)
(* One line of a log file: invalid JSON, valid JSON that is not an object, *)
(* or an object with its four optional fields.                             *)
(***************************************************************************)
InvalidJson == [json |-> "invalid"]
NonObject == [json |-> "nonobject"]
Obj(ts, addr, val, unit) ==
    [json |-> "object", timestamp |-> ts, i2c_address |-> addr, value |-> val, si_unit |-> unit]

\* the exception the try block of the line loop raises on this line, or "none"
LineException(line, mapping) ==
    CASE line.json = "invalid" -> "JSONDecodeError"
      [] line.json = "nonobject" -> "AttributeError"
      [] OTHER ->
           IF MappingGetRaises(Get(line, "i2c_address", Unknown)) THEN "TypeError"
           ELSE IF LocaltimeRaises(Get(line, "timestamp", Num(0))) THEN "TypeError"
           ELSE "none"

\* structured_entry for a line on which the try block does not raise
StructuredEntry(line, mapping, board, isMerged, basename, now) ==
    LET i2c_address == Get(line, "i2c_address", Unknown)
        component_name == MappingGet(mapping, i2c_address)
        base == ("DateTime" :> DateTimeOf(Get(line, "timestamp", Num(0)), now))
                @@ ("Timestamp" :> Get(line, "timestamp", Unknown))
                @@ ("Value" :> Get(line, "value", Unknown))
                @@ ("SI Unit" :> Get(line, "si_unit", Unknown))
                @@ ("I2C Address" :> i2c_address)
        comp == IF component_name # Unknown
                THEN ("Component" :> component_name)
                     @@ ("Component@Address" :>
                           Str(Format(component_name) \o "@" \o Format(i2c_address)))
                ELSE <<>>
        brd == IF board # UnknownBoard THEN ("Board" :> board) ELSE <<>>
        fname == IF isMerged THEN ("Filename" :> Str(basename)) ELSE <<>>
    IN base @@ comp @@ brd @@ fname

(***************************************************************************)
(* Paths.  A path is its directory components, its name and the extension  *)
(* the converter is aware of ("", ".xlsx" or ".csv").                      *)
(***************************************************************************)
Path(dirs, name, ext) == [dirs |-> dirs, name |-> name, ext |-> ext]

\* os.path.basename(p)
Basename(p) == p.name \o p.ext
\* p.endswith(ext)
EndsWith(p, ext) == p.ext = ext
\* p + ext
PlusExt(p, ext) == Path(p.dirs, p.name \o p.ext, ext)
\* os.path.join(dir, basename)
Join(dir, p) == Path(dir.dirs \o <<Basename(dir)>> \o p.dirs, p.name, p.ext)
\* output_path[:-5] + '.csv', for a path that ends in '.xlsx'
CsvSibling(p) == Path(p.dirs, p.name, ".csv")
\* output_path + ".bak" + str(new_timestamp)
BakPath(p, stamp) == Path(p.dirs, p.name \o p.ext \o ".bak" \o ToString(stamp), "")

LogDir == Path(<<>>, "logs", "")
OutDir == Path(<<>>, "out", "")
OutFile == Path(<<>>, "result", "")
\* os.path.isdir(p)
IsDir(p) == p \in {LogDir, OutDir}

(***************************************************************************)
(* The file system of output files: a function from the paths that exist   *)
(* to their contents.                                                      *)
(***************************************************************************)
FsPut(fs0, p, c) == [q \in (DOMAIN fs0) \cup {p} |-> IF q = p THEN c ELSE fs0[q]]
FsDel(fs0, p) == [q \in (DOMAIN fs0) \ {p} |-> fs0[q]]
\* os.rename(src, dst) when it succeeds: an existing dst is replaced
OsRename(fs0, src, dst) == FsPut(FsDel(fs0, src), dst, fs0[src])

\* what df.to_excel / df.to_csv leaves at the path when it succeeds
Content(data, fmt, serial) == [rows |-> data, fmt |-> fmt, serial |-> serial]

(***************************************************************************)
(* write_data_to_file.  env gives the outcome of each call the function    *)
(* makes into the operating system and pandas: env.rename is the outcome   *)
(* of os.rename in this call and in the fallback call, env.frame that of   *)
(* pd.DataFrame, env.excel that of df.to_excel, env.csv that of df.to_csv  *)
(* (TRUE: returns, FALSE: raises).  The result is the file system after    *)
(* the call, ret ("True", "False", or the exception that left the         *)
(* function), the write attempts made and the renames done.                *)
(***************************************************************************)
ResolveOutputPath(log_path, ext, output_path) ==
    IF ~EndsWith(output_path, ext)
    THEN IF IsDir(output_path)
         THEN Join(output_path, Path(<<>>, Basename(log_path), ext))
         ELSE PlusExt(output_path, ext)
    ELSE output_path

\* lines 47-50: the existing output is moved to its .bak name
BackupExisting(fs0, output_path, stamp) ==
    IF output_path \in DOMAIN fs0
    THEN OsRename(fs0, output_path, BakPath(output_path, stamp))
    ELSE fs0

RECURSIVE write_data_to_file(_, _, _, _, _, _, _, _, _)
write_data_to_file(fs0, stamp, serial, log_path, ext, output_path0, excel_mode, data, env) ==
    IF data = <<>>
    THEN [fs |-> fs0, ret |-> "False", tries |-> <<>>, renames |-> <<>>, nodata |-> TRUE]
    ELSE
      LET output_path == ResolveOutputPath(log_path, ext, output_path0)
          exists == output_path \in DOMAIN fs0
          fs1 == BackupExisting(fs0, output_path, stamp)
          renames == IF exists THEN <<[src |-> output_path, dst |-> BakPath(output_path, stamp)]>>
                     ELSE <<>>
          try(fmt, ok) == [fmt |-> fmt, path |-> output_path, ok |-> ok]
          out(f, r, t, rn) == [fs |-> f, ret |-> r, tries |-> t, renames |-> rn, nodata |-> FALSE]
      IN IF exists /\ ~Head(env.rename) THEN out(fs0, "OSError", <<>>, <<>>)
         ELSE IF ~env.frame THEN out(fs1, "MemoryError", <<>>, renames)
         ELSE IF excel_mode
         THEN IF env.excel
              THEN out(FsPut(fs1, output_path, Content(data, "xlsx", serial)), "True",
                       <<try("xlsx", TRUE)>>, renames)
              ELSE LET r == write_data_to_file(fs1, stamp, serial, log_path, ".csv",
                                               CsvSibling(output_path), FALSE, data,
                                               [env EXCEPT !.rename = Tail(@)])
                   IN out(r.fs, r.ret, <<try("xlsx", FALSE)>> \o r.tries, renames \o r.renames)
         ELSE IF env.csv
              THEN out(FsPut(fs1, output_path, Content(data, "csv", serial)), "True",
                       <<try("csv", TRUE)>>, renames)
              ELSE out(fs1, "False", <<try("csv", FALSE)>>, renames)

\* the outcomes the environment can give one call of write_data_to_file
WriteEnvs == [rename : {<<a, b>> : a \in BOOLEAN, b \in BOOLEAN},
              frame : BOOLEAN, excel : BOOLEAN, csv : BOOLEAN]

(***************************************************************************)
(* The state of one run of jsonl_to_xlsx().                                *)
(***************************************************************************)
VARIABLES
    merged,        \* --merged
    excel_mode,    \* not --csv
    output_path,   \* the resolved output file/folder
    log_files,     \* the discovered log files, in discovery order
    files,         \* files[k]: the file at log_files[k] (NoFile when it is gone)
    components,    \* config_data.get("components", [])
    i2c_mapping,   \* address -> component name
    board_type,    \* the board identifier
    pc,            \* where the run is: "loop", "lines", "done" or "crashed"
    idx,           \* how many files the for loop has taken
    lineno,        \* how many lines of the open file have been read
    data,          \* the record buffer
    errors,        \* the error list
    i,             \* the line loop's variable i (Unbound until a line is read)
    log_file,      \* the file loop's variable log_file (Unbound until a file is taken)
    exc,           \* the exception that ended the run, or "none"
    fs,            \* the output files that exist
    ticks,         \* seconds elapsed since the run started
    flushes,       \* history: every call of write_data_to_file by the main loop
    ever,          \* history: every (path, content) that has existed as an output
    session        \* history: the runs of a merged/per-file comparison

vars == <<merged, excel_mode, output_path, log_files, files, components, i2c_mapping,
          board_type, pc, idx, lineno, data, errors, i, log_file, exc, fs, ticks, flushes,
          ever, session>>

\* what the run never changes
lookups == <<excel_mode, output_path, components, i2c_mapping, board_type>>
inputs == <<merged, log_files, files, lookups, session>>

\* a log file: whether os.path.exists() finds it, and its lines
File(lines) == [exists |-> TRUE, lines |-> lines]
NoFile == [exists |-> FALSE, lines |-> <<>>]

\* int(time.time())
TimeTime == 1700000000 + ticks

\* output_file_extension
Ext == IF excel_mode THEN ".xlsx" ELSE ".csv"

\* the k-th discovered file: os.path.join(log_path, file)
LogFileName(k) == Path(<<Basename(LogDir)>>, "f" \o ToString(k) \o ".log", "")

\* sequences over S of length at most n
SeqUpTo(S, n) == UNION {[1..m -> S] : m \in 0..n}

(***************************************************************************)
(* Inputs of the run.                                                      *)
(***************************************************************************)
GoodLine == Obj(Num(1700000000), Num(24), Num(22), Str("C"))
Lines == {GoodLine, InvalidJson, NonObject}
Component(addr, name) == [i2cDeviceAddress |-> addr, name |-> name]
\* config.json: its "components" list and its exportedFromDevice.rtc
ConfigData(comps, rtc) == [components |-> comps, rtc |-> rtc]
\* line 141, with no wipper_boot_out.txt to override it
BoardType(config_data) == Get(config_data, "rtc", UnknownBoard)
Board == Str("feather-esp32s3")
Config == ConfigData(<<Component(Num(24), Str("BME280"))>>, Board)

\* an output left by an earlier run
PriorContent(fmt) == Content(<<>>, fmt, 0)
PriorFs(paths) == [p \in paths |-> PriorContent(IF p.ext = ".xlsx" THEN "xlsx" ELSE "csv")]
PriorPaths == {PlusExt(OutFile, ".xlsx"), PlusExt(OutFile, ".csv")}

TypeOK ==
    /\ merged \in BOOLEAN /\ excel_mode \in BOOLEAN
    /\ pc \in {"loop", "lines", "done", "crashed"}
    /\ idx \in 0..Len(log_files)
    /\ Len(files) = Len(log_files)
    /\ exc \in {"none", "UnboundLocalError", "OSError", "MemoryError"}
    /\ ticks \in 0..MaxTicks

InitRun ==
    /\ pc = "loop" /\ idx = 0 /\ lineno = 0
    /\ data = <<>> /\ errors = <<>>
    /\ i = Unbound /\ log_file = Unbound /\ exc = "none"
    /\ ticks = 0 /\ flushes = <<>>
    /\ ever = {[path |-> p, content |-> fs[p]] : p \in DOMAIN fs}
    /\ i2c_mapping = I2cMapping(components)
    /\ session = [k |-> 0, log_files |-> log_files, files |-> files, handed |-> <<>>]

Init ==
    /\ merged \in BOOLEAN
    /\ excel_mode \in BOOLEAN
    /\ output_path \in {OutDir, OutFile}
    /\ \E n \in 0..MaxFiles :
         /\ log_files = [k \in 1..n |-> LogFileName(k)]
         /\ files \in [1..n -> {File(l) : l \in SeqUpTo(Lines, MaxLines)} \cup {NoFile}]
    /\ components = Config.components
    /\ board_type = BoardType(Config)
    /\ fs \in {PriorFs(paths) : paths \in SUBSET PriorPaths}
    /\ InitRun

(***************************************************************************)
(* The steps of the run.                                                   *)
(***************************************************************************)
Crash(e) == pc' = "crashed" /\ exc' = e

\* lines 168-171 and 213-214: the for loop takes the next file
NextFile ==
    /\ pc = "loop" /\ idx < Len(log_files)
    /\ idx' = idx + 1
    /\ log_file' = log_files[idx + 1]
    /\ data' = IF ~merged THEN <<>> ELSE data
    /\ pc' = IF files[idx + 1].exists THEN "lines" ELSE "loop"
    /\ lineno' = 0
    /\ UNCHANGED <<inputs, errors, i, exc, fs, ticks, flushes, ever>>

LineError(n, file, e) == [kind |-> "line", line |-> n, file |-> file, e |-> e]

\* a line loop that drops a line that is not an object without recording it
LineResultSwallow(line, n, buffer, errs, mapping, board, isMerged, file, now) ==
    LET e == LineException(line, mapping)
    IN IF e = "none"
       THEN [data |-> Append(buffer, StructuredEntry(line, mapping, board, isMerged,
                                                     Basename(file), now)),
             errors |-> errs]
       ELSE IF e = "AttributeError"
       THEN [data |-> buffer, errors |-> errs]
       ELSE [data |-> buffer, errors |-> Append(errs, LineError(n + 1, file, e))]

\* lines 176-203: the try/except of the line loop on the line with index n:
\* the record is appended to the buffer, or the exception to the error list
LineResult(line, n, buffer, errs, mapping, board, isMerged, file, now) ==
    LET e == LineException(line, mapping)
    IN IF e = "none"
       THEN [data |-> Append(buffer, StructuredEntry(line, mapping, board, isMerged,
                                                     Basename(file), now)),
             errors |-> errs]
       ELSE [data |-> buffer, errors |-> Append(errs, LineError(n + 1, file, e))]

\* lines 173-203: one iteration of the line loop
ProcessLine ==
    /\ pc = "lines" /\ lineno < Len(files[idx].lines)
    /\ i' = Num(lineno)
    /\ LET r == LineResult(files[idx].lines[lineno + 1], lineno, data, errors, i2c_mapping,
                           board_type, merged, log_file, TimeTime)
       IN data' = r.data /\ errors' = r.errors
    /\ lineno' = lineno + 1
    /\ UNCHANGED <<inputs, pc, idx, log_file, exc, fs, ticks, flushes, ever>>

WriteError(path, ext, file, n) ==
    [kind |-> "write", path |-> path, ext |-> ext, file |-> file, len |-> n]

\* the record of one call of write_data_to_file by the main loop
FlushRecord(r) ==
    [file |-> log_file, idx |-> idx, data |-> data, ret |-> r.ret, tries |-> r.tries,
     renames |-> r.renames, nodata |-> r.nodata, stamp |-> TimeTime]

\* the call write_data_to_file(log_path, output_file_extension, path, excel_mode, data)
\* and the caller's "if not ...: errors.append(...)", continuing at pc next
FlushTo(path, next) ==
    \E env \in WriteEnvs :
      LET r == write_data_to_file(fs, TimeTime, Len(flushes) + 1, LogDir, Ext, path,
                                  excel_mode, data, env)
          written == {k \in DOMAIN r.tries : r.tries[k].ok}
      IN /\ fs' = r.fs
         /\ flushes' = Append(flushes, FlushRecord(r))
         /\ ever' = ever \cup {[path |-> r.tries[k].path, content |-> r.fs[r.tries[k].path]] :
                                 k \in written}
         /\ IF r.ret \notin {"True", "False"}
            THEN Crash(r.ret) /\ errors' = errors
            ELSE IF r.ret = "False" /\ log_file = Unbound
            THEN Crash("UnboundLocalError") /\ errors' = errors
            ELSE /\ pc' = next /\ exc' = exc
                 /\ errors' = IF r.ret = "False"
                              THEN Append(errors, WriteError(output_path, Ext, log_file, Len(data)))
                              ELSE errors

\* lines 204-212: the line loop is over; in per-file mode the buffer is flushed
EndOfFile ==
    /\ pc = "lines" /\ lineno = Len(files[idx].lines)
    /\ IF i = Unbound
       THEN Crash("UnboundLocalError") /\ UNCHANGED <<errors, fs, flushes, ever>>
       ELSE IF merged
       THEN pc' = "loop" /\ UNCHANGED <<errors, exc, fs, flushes, ever>>
       ELSE FlushTo(IF IsDir(output_path)
                    THEN Join(output_path, PlusExt(log_file, Ext))
                    ELSE output_path, "loop")
    /\ UNCHANGED <<inputs, idx, lineno, data, i, log_file, ticks>>

\* lines 216-223: after the last file; in merged mode the buffer is flushed
AfterLoop ==
    /\ pc = "loop" /\ idx = Len(log_files)
    /\ IF merged
       THEN FlushTo(output_path, "done")
       ELSE pc' = "done" /\ UNCHANGED <<errors, exc, fs, flushes, ever>>
    /\ UNCHANGED <<inputs, idx, lineno, data, i, log_file, ticks>>

\* the clock advances while the run is going
Tick ==
    /\ pc \in {"loop", "lines"} /\ ticks < MaxTicks
    /\ ticks' = ticks + 1
    /\ UNCHANGED <<inputs, pc, idx, lineno, data, errors, i, log_file, exc, fs, flushes, ever>>

Next == NextFile \/ ProcessLine \/ EndOfFile \/ AfterLoop \/ Tick

Spec == Init /\ [][Next]_vars

(***************************************************************************)
(* SpecLine: the run over one log file whose lines are drawn from every    *)
(* shape of timestamp and address, under every shape of configuration.     *)
(***************************************************************************)
MaxRichLines == 2

Timestamps == {Absent, Num(0), Num(1700000000), Str("abc"), Null}
Addresses == {Absent, Num(99), Null, List}
RichLines == {Obj(ts, Num(24), Num(22), Absent) : ts \in Timestamps}
                \cup {Obj(Num(1700000000), addr, Absent, Str("C")) : addr \in Addresses}
                \cup {InvalidJson, NonObject}

Configs ==
    { ConfigData(<<>>, Absent),
      ConfigData(<<Component(Num(24), Str("BME280"))>>, Board),
      ConfigData(<<Component(Num(24), Absent)>>, Absent),
      ConfigData(<<Component(Num(24), Str("SHT30")), Component(Num(24), Str("BME280"))>>, Board),
      ConfigData(<<Component(Absent, Str("BME280")), Component(Num(99), Str("Unknown"))>>,
                 Board) }

InitLine ==
    /\ merged \in BOOLEAN
    /\ excel_mode = TRUE
    /\ output_path = OutDir
    /\ log_files = <<LogFileName(1)>>
    /\ files \in [1..1 -> {File(l) : l \in SeqUpTo(RichLines, MaxRichLines)}]
    /\ \E config_data \in Configs :
         /\ components = config_data.components
         /\ board_type = BoardType(config_data)
    /\ fs = <<>>
    /\ InitRun

SpecLine == InitLine /\ [][Next]_vars

(***************************************************************************)
(* SpecPair: the converter is run in merged mode on the discovered files,  *)
(* then in per-file mode on each of those files alone, with the same       *)
(* lookup tables.  session.handed keeps what each finished run handed to   *)
(* the writer.                                                             *)
(***************************************************************************)
RECURSIVE Concat(_)
Concat(seqs) == IF seqs = <<>> THEN <<>> ELSE Head(seqs) \o Concat(Tail(seqs))

\* the records the run has handed to write_data_to_file so far
Handed == Concat([k \in DOMAIN flushes |-> flushes[k].data])

InitPair ==
    /\ merged = TRUE
    /\ excel_mode \in BOOLEAN
    /\ output_path = OutDir
    /\ \E n \in 0..MaxFiles :
         /\ log_files = [k \in 1..n |-> LogFileName(k)]
         /\ files \in [1..n -> {File(l) : l \in SeqUpTo(Lines, MaxLines)} \cup {NoFile}]
    /\ components = Config.components
    /\ board_type = BoardType(Config)
    /\ fs = <<>>
    /\ InitRun

\* the next invocation of the converter: per-file mode on the next file alone
StartPerFileRun ==
    /\ pc \in {"done", "crashed"}
    /\ session.k < Len(session.log_files)
    /\ session' = [session EXCEPT !.k = @ + 1, !.handed = Append(@, Handed)]
    /\ merged' = FALSE
    /\ log_files' = <<session.log_files[session.k + 1]>>
    /\ files' = <<session.files[session.k + 1]>>
    /\ pc' = "loop" /\ idx' = 0 /\ lineno' = 0
    /\ data' = <<>> /\ errors' = <<>>
    /\ i' = Unbound /\ log_file' = Unbound /\ exc' = "none"
    /\ flushes' = <<>>
    /\ UNCHANGED <<lookups, fs, ticks, ever>>

NextPair == Next \/ StartPerFileRun

SpecPair == InitPair /\ [][NextPair]_vars

(***************************************************************************)
(* Helpers of the properties.                                              *)
(***************************************************************************)
Terminated == pc \in {"done", "crashed"}

Count(seq, P(_)) == Cardinality({k \in DOMAIN seq : P(seq[k])})

\* the records of the buffer that came from this file: in per-file mode the
\* buffer was reset when the file was taken, in merged mode the records name it
RecordsFrom(buffer, file) ==
    IF merged
    THEN Count(buffer, LAMBDA rec : rec["Filename"] = Str(Basename(file)))
    ELSE Len(buffer)

LineErrorsOf(errs, file) == Count(errs, LAMBDA e : e.kind = "line" /\ e.file = file)

(***************************************************************************)
(* C1: per-line fault isolation.  Every iteration of the line loop appends *)
(* exactly one record to the buffer or exactly one line error to the error *)
(* list, never both, never neither; a malformed line (invalid JSON, or     *)
(* JSON that is not an object) adds the error and no record, and the scan  *)
(* goes on; when the scan of a file ends, the records and line errors the  *)
(* file added are as many as its lines.                                    *)
(***************************************************************************)
C1_LineStep ==
    (pc = "lines" /\ lineno' # lineno) =>
        LET line == files[idx].lines[lineno + 1]
            oneRecord == /\ Len(data') = Len(data) + 1
                         /\ SubSeq(data', 1, Len(data)) = data
                         /\ errors' = errors
            oneError == /\ Len(errors') = Len(errors) + 1
                        /\ SubSeq(errors', 1, Len(errors)) = errors
                        /\ errors'[Len(errors')].kind = "line"
                        /\ errors'[Len(errors')].line = lineno + 1
                        /\ errors'[Len(errors')].file = log_file
                        /\ data' = data
        IN /\ lineno' = lineno + 1
           /\ oneRecord # oneError
           /\ (line.json # "object") => oneError
           /\ pc' = "lines"
           /\ RecordsFrom(data', log_file) + LineErrorsOf(errors', log_file) = lineno'

C1_ScanEnd ==
    (pc = "lines" /\ pc' # "lines") =>
        /\ lineno = Len(files[idx].lines)
        /\ RecordsFrom(data, log_file) + LineErrorsOf(errors, log_file)
             = Len(files[idx].lines)

\* C1: each line adds exactly one record or exactly one line error, a malformed
\* line is skipped, and a finished scan has accounted for every line of the file
C1_LineFaultIsolation == [][C1_LineStep /\ C1_ScanEnd]_vars

\* a file whose first line is not an object and whose second line gave a record
C1_Witness ==
    /\ pc = "lines" /\ lineno = 2
    /\ files[idx].lines[1] = NonObject
    /\ RecordsFrom(data, log_file) = 1
    /\ LineErrorsOf(errors, log_file) = 1

(***************************************************************************)
(* C2: the run always reaches completion.  Whatever the discovered files   *)
(* are and whatever the flushes return, the run ends at "Conversion        *)
(* complete" with every discovered file taken by the main loop.            *)
(***************************************************************************)
\* C2: the run never ends on an uncaught exception and ends with every file taken
C2_RunReachesCompletion ==
    /\ pc # "crashed"
    /\ pc = "done" => idx = Len(log_files)

(***************************************************************************)
(* C3: empty-buffer policy.  A flush of a buffer with zero records writes  *)
(* nothing, renames nothing, reports "no data" and adds no entry to the    *)
(* error list.                                                             *)
(***************************************************************************)
\* C3: a flush of an empty buffer writes and renames nothing and adds no error
C3_EmptyBufferNotAnError ==
    /\ \A k \in DOMAIN flushes :
         flushes[k].data = <<>> =>
             /\ flushes[k].tries = <<>> /\ flushes[k].renames = <<>>
             /\ flushes[k].nodata
    /\ \A k \in DOMAIN errors : ~(errors[k].kind = "write" /\ errors[k].len = 0)

(***************************************************************************)
(* C4: collision handling never destroys prior output.  The content of     *)
(* every file that ever existed at an output path still exists, at that    *)
(* path or under <path>.bak<unix-epoch-seconds>, and after a successful    *)
(* write the path written holds exactly the records of the new buffer.     *)
(***************************************************************************)
Stamps == {1700000000 + t : t \in 0..MaxTicks}

Survives(e) ==
    \E p \in DOMAIN fs :
        /\ fs[p] = e.content
        /\ (p = e.path \/ \E t \in Stamps : p = BakPath(e.path, t))

\* C4: every content that existed at an output path survives there or under a
\* .bak<seconds> name, and a successful write leaves the new records at its path
C4_PriorOutputPreserved ==
    /\ \A e \in ever : Survives(e)
    /\ (flushes # <<>> /\ flushes[Len(flushes)].ret = "True") =>
          LET f == flushes[Len(flushes)]
              t == f.tries[Len(f.tries)]
          IN t.path \in DOMAIN fs /\ fs[t.path].rows = f.data

(***************************************************************************)
(* C5: format fallback is a bounded two-step strategy.  A flush of a       *)
(* non-empty buffer whose spreadsheet write raises retries the buffer      *)
(* exactly once as CSV at the same stem with .csv, and reports success or  *)
(* failure as that CSV write succeeds or fails, without raising; a flush   *)
(* makes at most two write attempts and a CSV-mode flush exactly one.      *)
(* The flushes looked at are those that reached their first write: a       *)
(* failure before it is the matter of C8.                                  *)
(***************************************************************************)
C5_FlushOk(f) ==
    /\ Len(f.tries) <= 2
    /\ excel_mode =>
         /\ f.tries[1].fmt = "xlsx"
         /\ f.tries[1].ok => (Len(f.tries) = 1 /\ f.ret = "True")
         /\ ~f.tries[1].ok =>
               /\ Len(f.tries) = 2
               /\ f.tries[2].fmt = "csv"
               /\ f.tries[2].path = CsvSibling(f.tries[1].path)
               /\ f.ret = IF f.tries[2].ok THEN "True" ELSE "False"
    /\ ~excel_mode =>
         /\ Len(f.tries) = 1
         /\ f.tries[1].fmt = "csv"
         /\ f.ret = IF f.tries[1].ok THEN "True" ELSE "False"

\* C5: a failed spreadsheet write is followed by exactly one CSV attempt whose
\* outcome is the flush's result; at most two attempts, one in CSV mode
C5_TwoStepFallback ==
    \A k \in DOMAIN flushes :
        (flushes[k].data # <<>> /\ flushes[k].tries # <<>>) => C5_FlushOk(flushes[k])

(***************************************************************************)
(* C7: every flush hands the writer exactly the records of its scope.  In  *)
(* per-file mode there is one flush per existing discovered file, made     *)
(* after the file's lines are consumed and before the next file is taken,  *)
(* holding only that file's records; in merged mode there is no flush      *)
(* while files are processed and exactly one after the last file, holding  *)
(* the records of all files in discovery order.                            *)
(***************************************************************************)
RECURSIVE ScanFile(_, _, _)
ScanFile(k, n, buffer) ==
    IF n = Len(files[k].lines) THEN buffer
    ELSE ScanFile(k, n + 1,
                  LineResult(files[k].lines[n + 1], n, buffer, <<>>, i2c_mapping, board_type,
                             merged, log_files[k], TimeTime).data)

RECURSIVE ScanAll(_, _)
ScanAll(k, buffer) ==
    IF k = Len(log_files) THEN buffer
    ELSE ScanAll(k + 1, IF files[k + 1].exists THEN ScanFile(k + 1, 0, buffer) ELSE buffer)

Existing(upto) == {k \in 1..upto : files[k].exists}

C7_PerFile ==
    /\ \A j \in DOMAIN flushes :
         /\ flushes[j].idx \in Existing(idx)
         /\ flushes[j].data = ScanFile(flushes[j].idx, 0, <<>>)
         /\ \A j2 \in DOMAIN flushes : j < j2 => flushes[j].idx < flushes[j2].idx
    /\ LET taken == IF pc = "lines" THEN idx - 1 ELSE idx
       IN (pc # "crashed") => {flushes[j].idx : j \in DOMAIN flushes} = Existing(taken)
    /\ Terminated => {flushes[j].idx : j \in DOMAIN flushes} = Existing(Len(log_files))

C7_Merged ==
    /\ ~Terminated => flushes = <<>>
    /\ Terminated =>
         /\ Len(flushes) = 1
         /\ flushes[1].idx = Len(log_files)
         /\ flushes[1].data = ScanAll(0, <<>>)

\* C7: per-file mode flushes once per existing file with that file's records,
\* merged mode flushes once, after the last file, with the records of all files
C7_FlushScopes == IF merged THEN C7_Merged ELSE C7_PerFile

(***************************************************************************)
(* C8: a fatal write failure is contained to its buffer.  When renaming    *)
(* the existing output or building the table fails, the writer returns     *)
(* failure instead of raising, the caller records one error for the        *)
(* buffer, and the run goes on to the next file.                           *)
(***************************************************************************)
\* C8: no call of the writer raises, and no run ends on an error of the writer
C8_FatalWriteContained ==
    /\ \A k \in DOMAIN flushes : flushes[k].ret \in {"True", "False"}
    /\ exc \notin {"OSError", "MemoryError"}

(***************************************************************************)
(* C6: merged/per-file partition equivalence.  The multiset of records     *)
(* handed to the writer by the merged run on the N files, Filename         *)
(* removed, equals the multiset union of the records handed to the writer  *)
(* by the per-file runs on each of the N files.                            *)
(***************************************************************************)
SeqToBag(seq) ==
    [x \in {seq[k] : k \in DOMAIN seq} |-> Cardinality({k \in DOMAIN seq : seq[k] = x})]

WithoutFilename(rec) == [f \in (DOMAIN rec) \ {"Filename"} |-> rec[f]]

\* C6: the merged run hands the writer the same multiset of records, Filename
\* removed, as the per-file runs on each file together
C6_PartitionEquivalence ==
    (Terminated /\ session.k = Len(session.log_files)) =>
        LET runs == Append(session.handed, Handed)
            mergedRun == [k \in DOMAIN runs[1] |-> WithoutFilename(runs[1][k])]
            perFileRuns == Concat(Tail(runs))
        IN SeqToBag(mergedRun) = SeqToBag(perFileRuns)

(***************************************************************************)
(* C9: DateTime derivation never throws and uses a sentinel.  Every line   *)
(* that is a JSON object (with an address that can be looked up) gives a   *)
(* record and no line error; its DateTime is the formatted local time only *)
(* when timestamp is a non-zero number, and "Unknown" when timestamp is    *)
(* absent, zero or not a number.                                           *)
(***************************************************************************)
C9_LineStep ==
    (pc = "lines" /\ lineno' = lineno + 1) =>
        LET line == files[idx].lines[lineno + 1]
        IN (line.json = "object" /\ line.i2c_address # List) =>
              /\ Len(data') = Len(data) + 1
              /\ errors' = errors
              /\ LET ts == line.timestamp
                     dt == data'[Len(data')]["DateTime"]
                 IN IF ts.tag = "num" /\ ts.n # 0
                    THEN dt = Str(Strftime(ts.n))
                    ELSE dt = Unknown

\* C9: every JSON object line gives a record; its DateTime is the formatted time
\* for a non-zero numeric timestamp and "Unknown" otherwise
C9_DateTimeSentinel == [][C9_LineStep]_vars

(***************************************************************************)
(* C10: component enrichment.                                              *)
(* As claimed: every record whose address is a key of the lookup built     *)
(* from the components list (a component without a name included) carries  *)
(* Component, the looked-up name, and Component@Address, exactly           *)
(* "{name}@{address}"; every record whose address is no key has neither.   *)
(* As amended: the two fields are carried exactly when the address is a    *)
(* key whose name is not "Unknown" (a component without a name gets the    *)
(* name "Unknown"); every other record has neither field.                  *)
(***************************************************************************)
AddressKey(comp) == Get(comp, "i2cDeviceAddress", Null)
LookupHas(addr) == \E k \in DOMAIN components : AddressKey(components[k]) = addr
LookupName(addr) ==
    LET last == CHOOSE k \in DOMAIN components :
                    /\ AddressKey(components[k]) = addr
                    /\ \A k2 \in DOMAIN components :
                          AddressKey(components[k2]) = addr => k2 <= k
    IN Get(components[last], "name", Unknown)

Enriched(rec, name) ==
    /\ {"Component", "Component@Address"} \subseteq DOMAIN rec
    /\ rec["Component"] = name
    /\ rec["Component@Address"] = Str(Format(name) \o "@" \o Format(rec["I2C Address"]))

NotEnriched(rec) == {"Component", "Component@Address"} \cap DOMAIN rec = {}

\* C10 as claimed: a record is enriched exactly when its address is a key of the
\* lookup, whatever the name found
C10_AsClaimed ==
    \A k \in DOMAIN data :
        IF LookupHas(data[k]["I2C Address"])
        THEN Enriched(data[k], LookupName(data[k]["I2C Address"]))
        ELSE NotEnriched(data[k])

\* C10 as amended: a record is enriched, with the looked-up name and
\* "{name}@{address}", exactly when its address is a key whose name is not "Unknown"
C10_ComponentEnrichment ==
    \A k \in DOMAIN data :
        LET addr == data[k]["I2C Address"]
        IN IF LookupHas(addr) /\ LookupName(addr) # Unknown
           THEN Enriched(data[k], LookupName(addr))
           ELSE NotEnriched(data[k])

\* two components share address 24: the record carries the later one's name
C10_Witness ==
    /\ Len(components) = 2
    /\ data # <<>>
    /\ LookupHas(data[1]["I2C Address"])
    /\ data[1]["Component@Address"] = Str("BME280@24")

====
